---- MODULE Spec2Model ----
(***************************************************************************)
(* Model of datasets/LJSpeech.py: the LJSpeechDataset class.               *)
(*                                                                         *)
(*   __init__ / _sort_frames : reads the manifest and orders the example   *)
(*                             table by transcript length (np.argsort)     *)
(*   __len__ / __getitem__   : read-only accessors used by loader workers  *)
(*   load_wav                : waveform decoding with its except clause    *)
(*   collate_fn              : batch assembly (padding, step padding,      *)
(*                             transpose)                                  *)
(*                                                                         *)
(* Python positions are 0-based; the model uses 1-based positions, so the  *)
(* model's frames[i] is the code's self.frames[i-1].  Arrays of spectral   *)
(* values are modelled by their shapes <<batch, bins, time>>.              *)
(***************************************************************************)
EXTENDS Integers, Sequences, FiniteSets

\* ---------------------------------------------------------------- bounds
MaxFrames == 2      \* lines of the manifest
MaxTextLen == 2     \* symbols of a symbol sequence
MaxBatch == 2       \* examples handed to collate_fn
MaxTimesteps == 3   \* frames produced by the audio processor
MaxStep == 3        \* outputs_per_step

\* ------------------------------------------------------------- alphabets
Names == {"a", "b"}          \* resource identifiers (first manifest field)
TextLens == {1, 2}           \* transcript lengths (second manifest field)
Symbols == {1, 2}            \* symbol ids other than the pad symbol 0
Workers == {"w1", "w2"}      \* concurrent loader workers

\* number of linear frequency bins / mel bins of the audio processor
num_freq == 3
num_mels == 2

VARIABLES manifest, frames, phase, outputs_per_step, pc, local, ret, out

vars == <<manifest, frames, phase, outputs_per_step, pc, local, ret, out>>

\* ------------------------------------------------------------ helpers
RECURSIVE SeqsUpTo(_, _)
SeqsUpTo(S, n) ==
    IF n = 0 THEN {<<>>}
    ELSE LET shorter == SeqsUpTo(S, n - 1)
         IN shorter \cup {Append(s, x) : s \in {t \in shorter : Len(t) = n - 1}, x \in S}

RECURSIVE Repeat(_, _)
Repeat(x, n) == IF n <= 0 THEN <<>> ELSE <<x>> \o Repeat(x, n - 1)

RECURSIVE MaxOf(_)
MaxOf(s) ==
    IF Len(s) = 1 THEN s[1]
    ELSE LET m == MaxOf(Tail(s)) IN IF s[1] >= m THEN s[1] ELSE m

\* one line of the manifest after line.split('|'): ins[0] is the resource
\* identifier, ins[1] the transcript, of which only the length is kept
Entries == [name : Names, textlen : TextLens]

Manifests == SeqsUpTo(Entries, MaxFrames)

\* the symbol sequences text_to_sequence may return
SymSeqs == SeqsUpTo(Symbols, MaxTextLen)

\* the waveform stored under a resource identifier
WavOf(name) == IF name = "a" THEN <<7>> ELSE <<7, 7>>

\* os.path.join(root_dir, name) + '.wav'
wav_name(name) == <<"root_dir", name, ".wav">>

\* ------------------------------------------------------ _sort_frames
\* lengths = np.array([len(ins[1]) for ins in self.frames])
lengths(fr) == [i \in 1..Len(fr) |-> fr[i].textlen]

Perms(n) == {p \in [1..n -> 1..n] : \A i, j \in 1..n : p[i] = p[j] => i = j}

\* np.argsort(lengths) with the default kind: an index array that sorts
\* lengths; the default algorithm is not stable, so any sorting
\* permutation may result
argsort(ls) ==
    {p \in Perms(Len(ls)) : \A i, j \in 1..Len(ls) : i < j => ls[p[i]] <= ls[p[j]]}

\* new_frames[i] = self.frames[idx] for i, idx in enumerate(idxs)
reorder(fr, idxs) == [i \in 1..Len(fr) |-> fr[idxs[i]]]

sort_frames_identity(fr) == {fr}

\* the tables _sort_frames may leave in self.frames (non-empty input)
sort_frames(fr) == {reorder(fr, idxs) : idxs \in argsort(lengths(fr))}

\* ------------------------------------------------------------ collate_fn
\* a batch element: a sample dict as __getitem__ builds it, or some other
\* object (kind "other") that is no mapping
NonMapping == [kind |-> "other", text |-> <<>>, wav |-> <<>>, item_idx |-> "a"]

Sample(text, name) == [kind |-> "dict", text |-> text, wav |-> WavOf(name), item_idx |-> name]

\* every symbol sequence with recording "a", one sample of the longer
\* recording "b", and an element that is no mapping
Samples == {Sample(t, "a") : t \in SymSeqs} \cup {Sample(<<1>>, "b"), NonMapping}

Batches == SeqsUpTo(Samples, MaxBatch)

\* TTS.utils.data.pad_data: x followed by the pad value 0 up to length
pad_data(x, length) == x \o Repeat(0, length - Len(x))

\* TTS.utils.data.prepare_data: every sequence padded to the longest one
prepare_data(inputs) ==
    LET max_len == MaxOf([i \in 1..Len(inputs) |-> Len(inputs[i])])
    IN [i \in 1..Len(inputs) |-> pad_data(inputs[i], max_len)]

\* TTS.utils.data.pad_per_step: pad_len more frames on the time axis
pad_per_step(shape, pad_len) == <<shape[1], shape[2], shape[3] + pad_len>>

\* ndarray.transpose(0, 2, 1) on a shape
transpose(shape) == <<shape[1], shape[3], shape[2]>>

text_lenghts_after_padding(text) ==
    [i \in 1..Len(text) |-> Len(prepare_data(text)[i])]

\* text_lenghts = np.array([len(x) for x in text])
text_lenghts(text) == [i \in 1..Len(text) |-> Len(text[i])]

pad_len_no_marker(timesteps, r) ==
    IF (timesteps + 1) % r # 0
    THEN r - ((timesteps + 1) % r)
    ELSE 1

pad_len_extra_step(timesteps, r) ==
    IF (timesteps + 1) % r # 0
    THEN (r - ((timesteps + 1) % r)) + 1 + r
    ELSE 1

\* the step padding of lines 98-103
pad_len(timesteps, r) ==
    IF (timesteps + 1) % r # 0
    THEN (r - ((timesteps + 1) % r)) + 1
    ELSE 1

Raised(e) ==
    [status |-> "error", error |-> e, text |-> <<>>, text_lenghts |-> <<>>,
     linear |-> <<0, 0, 0>>, mel |-> <<0, 0, 0>>, item_idx |-> "a",
     pad_len |-> 0, timesteps |-> 0]

\* lines 81-116, entered with batch[0] a mapping and every element
\* subscriptable by key; check_frames tells whether the assert of line 94
\* is evaluated
collate_body(batch, r, linT, melT, check_frames) ==
    LET n == Len(batch)
        text == [i \in 1..n |-> batch[i].text]
        wav == prepare_data([i \in 1..n |-> batch[i].wav])
        linear == <<Len(wav), num_freq, linT>>
        mel == <<Len(wav), num_mels, melT>>
        timesteps == mel[3]
        pl == pad_len(timesteps, r)
    IN IF check_frames /\ mel[3] # linear[3]
       THEN Raised("AssertionError")
       ELSE [status |-> "ok", error |-> "none",
             text |-> prepare_data(text),
             text_lenghts |-> text_lenghts(text),
             linear |-> transpose(pad_per_step(linear, pl)),
             mel |-> transpose(pad_per_step(mel, pl)),
             item_idx |-> batch[1].item_idx,
             pad_len |-> pl, timesteps |-> timesteps]

collate_fn_empty_ok(batch, r, linT, melT) ==
    IF Len(batch) = 0 THEN [Raised("none") EXCEPT !.status = "ok"]
    ELSE IF \E i \in 1..Len(batch) : batch[i].kind # "dict" THEN Raised("TypeError")
    ELSE collate_body(batch, r, linT, melT, TRUE)

collate_fn_no_assert(batch, r, linT, melT) ==
    IF Len(batch) = 0 THEN Raised("IndexError")
    ELSE IF \E i \in 1..Len(batch) : batch[i].kind # "dict" THEN Raised("TypeError")
    ELSE collate_body(batch, r, linT, melT, FALSE)

\* collate_fn(batch) of a dataset with outputs_per_step = r whose audio
\* processor yields linT linear frames and melT mel frames for the padded
\* waveforms.  batch[0] of an empty list raises IndexError; a first element
\* that is no mapping reaches the TypeError of line 118, a later one fails
\* in the comprehensions of lines 81-83.
collate_fn(batch, r, linT, melT) ==
    IF Len(batch) = 0 THEN Raised("IndexError")
    ELSE IF \E i \in 1..Len(batch) : batch[i].kind # "dict" THEN Raised("TypeError")
    ELSE collate_body(batch, r, linT, melT, TRUE)

\* ------------------------------------------------------------ the dataset
\* what a worker holds while no call of its own has returned yet
NoRet ==
    [op |-> "none", status |-> "none", error |-> "none", decode |-> "none",
     idx |-> 0, resource |-> <<>>, sample |-> NonMapping, n |-> 0]

\* the locals of a __getitem__ call in progress
NoLocal == [idx |-> 0, wav_name |-> <<>>, text |-> <<>>, wav |-> <<>>]

NoCall ==
    [called |-> FALSE, batch |-> <<>>, linT |-> 0, melT |-> 0, res |-> Raised("none")]

\* text_to_sequence(text, [cleaners]): an opaque collaborator; a symbol
\* sequence of any length may come back for a transcript (which symbols it
\* holds is immaterial to the dataset, so one symbol stands for all)
text_to_sequence(textlen) == SeqsUpTo({1}, MaxTextLen)

\* how librosa.core.load may end: with the audio, with a RuntimeError, or
\* with an exception that is no RuntimeError
DecodeOutcomes == {"ok", "RuntimeError", "IOError"}

\* load_wav(filename): the audio tuple, None after the except clause, or
\* the exception that passes through it
load_wav(filename, outcome) ==
    IF outcome = "ok" THEN [kind |-> "audio", wav |-> WavOf(filename[2])]
    ELSE IF outcome = "RuntimeError" THEN [kind |-> "None", wav |-> <<>>]
    ELSE [kind |-> "raise", wav |-> <<>>]

\* before the constructor runs; the workers are given a dataset of one
\* outputs_per_step (that of collate_fn is varied under SpecCollate)
Init ==
    /\ manifest \in Manifests
    /\ frames = <<>>
    /\ phase = "new"
    /\ outputs_per_step = MaxStep
    /\ pc = [w \in Workers |-> "idle"]
    /\ local = [w \in Workers |-> NoLocal]
    /\ ret = [w \in Workers |-> NoRet]
    /\ out = NoCall

\* __init__: line 20 reads the manifest, line 29 runs _sort_frames, whose
\* np.max(lengths) raises ValueError on an empty array (line 42)
Construct ==
    /\ phase = "new"
    /\ IF Len(manifest) = 0
       THEN /\ frames' = manifest
            /\ phase' = "ValueError"
       ELSE /\ frames' \in sort_frames(manifest)
            /\ phase' = "ready"
    /\ UNCHANGED <<manifest, outputs_per_step, pc, local, ret, out>>

\* __len__
LenCall(w) ==
    /\ phase = "ready"
    /\ pc[w] = "idle"
    /\ ret' = [ret EXCEPT ![w] = [NoRet EXCEPT !.op = "len", !.status = "ok",
                                                !.n = Len(frames)]]
    /\ UNCHANGED <<manifest, frames, phase, outputs_per_step, pc, local, out>>

\* __getitem__, lines 56-57: wav_name from self.frames[idx][0]
GetItem57(w, idx) ==
    /\ phase = "ready"
    /\ pc[w] = "idle"
    /\ idx \in 1..Len(frames)
    /\ local' = [local EXCEPT ![w] = [NoLocal EXCEPT !.idx = idx,
                                        !.wav_name = wav_name(frames[idx].name)]]
    /\ ret' = [ret EXCEPT ![w] = NoRet]
    /\ pc' = [pc EXCEPT ![w] = "l58"]
    /\ UNCHANGED <<manifest, frames, phase, outputs_per_step, out>>

\* lines 58-60: text from self.frames[idx][1], converted; then
\* self.load_wav(wav_name)[0], where subscripting None raises TypeError
GetItem58(w) ==
    /\ pc[w] = "l58"
    /\ local[w].idx \in 1..Len(frames)
    /\ \E syms \in text_to_sequence(frames[local[w].idx].textlen) :
       \E outcome \in DecodeOutcomes :
          LET audio == load_wav(local[w].wav_name, outcome)
              failed(e, res) ==
                  [NoRet EXCEPT !.op = "getitem", !.status = "error", !.error = e,
                                !.decode = outcome, !.idx = local[w].idx,
                                !.resource = res]
          IN IF audio.kind = "audio"
             THEN /\ local' = [local EXCEPT ![w].text = syms, ![w].wav = audio.wav]
                  /\ pc' = [pc EXCEPT ![w] = "l61"]
                  /\ ret' = ret
             ELSE /\ local' = [local EXCEPT ![w] = NoLocal]
                  /\ pc' = [pc EXCEPT ![w] = "idle"]
                  /\ ret' = [ret EXCEPT ![w] =
                               IF audio.kind = "None"
                               THEN failed("TypeError", <<>>)
                               ELSE failed(outcome, local[w].wav_name)]
    /\ UNCHANGED <<manifest, frames, phase, outputs_per_step, out>>

GetItem61_pop(w) ==
    /\ pc[w] = "l61"
    /\ local[w].idx \in 1..Len(frames)
    /\ ret' = [ret EXCEPT ![w] =
                 [NoRet EXCEPT !.op = "getitem", !.status = "ok", !.decode = "ok",
                               !.idx = local[w].idx,
                               !.resource = local[w].wav_name,
                               !.sample = [kind |-> "dict", text |-> local[w].text,
                                           wav |-> local[w].wav,
                                           item_idx |-> frames[local[w].idx].name]]]
    /\ frames' = [i \in 1..(Len(frames) - 1) |->
                    IF i < local[w].idx THEN frames[i] ELSE frames[i + 1]]
    /\ local' = [local EXCEPT ![w] = NoLocal]
    /\ pc' = [pc EXCEPT ![w] = "idle"]
    /\ UNCHANGED <<manifest, phase, outputs_per_step, out>>

\* lines 61-62: the sample, with item_idx from self.frames[idx][0]
GetItem61(w) ==
    /\ pc[w] = "l61"
    /\ local[w].idx \in 1..Len(frames)
    /\ ret' = [ret EXCEPT ![w] =
                 [NoRet EXCEPT !.op = "getitem", !.status = "ok", !.decode = "ok",
                               !.idx = local[w].idx,
                               !.resource = local[w].wav_name,
                               !.sample = [kind |-> "dict", text |-> local[w].text,
                                           wav |-> local[w].wav,
                                           item_idx |-> frames[local[w].idx].name]]]
    /\ local' = [local EXCEPT ![w] = NoLocal]
    /\ pc' = [pc EXCEPT ![w] = "idle"]
    /\ UNCHANGED <<manifest, frames, phase, outputs_per_step, out>>

\* a worker collates the sample it has just loaded (a batch of one), the
\* processor's two frame counts agreeing or not; the worker keeps how the
\* call ended
WorkerCollate(w) ==
    /\ phase = "ready"
    /\ pc[w] = "idle"
    /\ ret[w].op = "getitem"
    /\ ret[w].status = "ok"
    /\ \E melT \in {1, 2} :
          LET res == collate_fn(<<ret[w].sample>>, outputs_per_step, 1, melT)
          IN ret' = [ret EXCEPT ![w] =
                       [NoRet EXCEPT !.op = "collate", !.status = res.status,
                                     !.error = res.error, !.idx = ret[w].idx]]
    /\ UNCHANGED <<manifest, frames, phase, outputs_per_step, pc, local, out>>

Next ==
    \/ Construct
    \/ \E w \in Workers : LenCall(w)
    \/ \E w \in Workers : \E idx \in 1..MaxFrames : GetItem57(w, idx)
    \/ \E w \in Workers : GetItem58(w)
    \/ \E w \in Workers : GetItem61(w)
    \/ \E w \in Workers : WorkerCollate(w)

Spec == Init /\ [][Next]_vars

\* ------------------------------------------------- collate_fn on its own
\* a dataset built from a one-line manifest, about to collate
InitCollate ==
    /\ manifest = <<[name |-> "a", textlen |-> 1]>>
    /\ frames = manifest
    /\ phase = "ready"
    /\ outputs_per_step \in 1..MaxStep
    /\ pc = [w \in Workers |-> "idle"]
    /\ local = [w \in Workers |-> NoLocal]
    /\ ret = [w \in Workers |-> NoRet]
    /\ out = NoCall

\* collate_fn(batch) for any batch and any frame counts of the processor
Collate ==
    /\ phase = "ready"
    /\ ~out.called
    /\ \E batch \in Batches : \E linT, melT \in 0..MaxTimesteps :
          out' = [called |-> TRUE, batch |-> batch, linT |-> linT, melT |-> melT,
                  res |-> collate_fn(batch, outputs_per_step, linT, melT)]
    /\ UNCHANGED <<manifest, frames, phase, outputs_per_step, pc, local, ret>>

\* the caller consumes the batch (or the exception) and lets go of it
Release ==
    /\ out.called
    /\ out' = NoCall
    /\ UNCHANGED <<manifest, frames, phase, outputs_per_step, pc, local, ret>>

NextCollate == Collate \/ Release

SpecCollate == InitCollate /\ [][NextCollate]_vars

\* =================================================================== claims
Count(seq, e) == Cardinality({i \in 1..Len(seq) : seq[i] = e})

Sorted(fr) == \A i, j \in 1..Len(fr) : i < j => fr[i].textlen <= fr[j].textlen

\* the one index array that sorts ls and keeps ties in input order
stable_argsort(ls) ==
    CHOOSE p \in argsort(ls) :
        \A i, j \in 1..Len(ls) : (i < j /\ ls[p[i]] = ls[p[j]]) => p[i] < p[j]

Returned == out.called /\ out.res.status = "ok"

\* C1: every batch collate_fn returns has one time dimension for both
\* spectrograms, a multiple of outputs_per_step that is at least one more
\* than the frame count before the step padding; and every non-empty batch
\* of samples whose frame counts agree is returned.
C1_StepMultiple ==
    /\ Returned =>
          /\ out.res.timesteps = out.melT
          /\ out.res.linear[2] = out.res.mel[2]
          /\ out.res.mel[2] % outputs_per_step = 0
          /\ out.res.mel[2] >= out.res.timesteps + 1
    /\ ( /\ out.called
         /\ Len(out.batch) > 0
         /\ \A i \in 1..Len(out.batch) : out.batch[i].kind = "dict"
         /\ out.linT = out.melT ) => out.res.status = "ok"

\* a batch returned where timesteps + 1 is no multiple of outputs_per_step
C1_Witness ==
    /\ Returned
    /\ outputs_per_step = 3
    /\ out.res.timesteps = 3
    /\ out.res.mel[2] = 6

\* C2: once the constructor has run, the example table is a permutation of
\* the manifest (same entries, same multiplicities, same count) ordered by
\* non-decreasing transcript length.
C2_SortedPermutation ==
    phase # "new" =>
        /\ Len(frames) = Len(manifest)
        /\ \A e \in Entries : Count(frames, e) = Count(manifest, e)
        /\ Sorted(frames)

\* a full manifest that the constructor had to reorder
C2_Witness ==
    /\ phase = "ready"
    /\ Len(manifest) = MaxFrames
    /\ frames # manifest
    /\ frames[1].textlen < frames[Len(frames)].textlen

\* C3: the sorted table keeps examples of equal length in manifest order,
\* that is, it is the stable sort of the manifest.
C3_Stable ==
    phase = "ready" => frames = reorder(manifest, stable_argsort(lengths(manifest)))

\* C4: when decoding fails, __getitem__ ends with the decode failure itself,
\* carrying the resource identifier (the wav file name); it returns no
\* sample and raises nothing else.
C4_AudioLoadError ==
    \A w \in Workers :
        (ret[w].op = "getitem" /\ ret[w].decode \in DecodeOutcomes \ {"ok"}) =>
            /\ ret[w].status = "error"
            /\ ret[w].error \in DecodeOutcomes \ {"ok"}
            /\ ret[w].resource = wav_name(frames[ret[w].idx].name)

C6_FramesAgree ==
    /\ (out.called /\ out.linT # out.melT) => out.res.status = "error"
    /\ Returned =>
          /\ out.res.linear[2] = out.res.mel[2]
          /\ out.res.linear = <<Len(out.batch), out.linT + out.res.pad_len, num_freq>>
          /\ out.res.mel = <<Len(out.batch), out.melT + out.res.pad_len, num_mels>>

\* a batch of samples aborted by the assert because the frame counts differ
C6_Witness ==
    /\ out.called
    /\ Len(out.batch) = MaxBatch
    /\ out.linT # out.melT
    /\ out.res.error = "AssertionError"

\* C7: the symbol matrix has one row per example, as wide as the longest
\* symbol sequence of the batch; row i is example i's sequence followed by
\* the pad symbol 0; text_lenghts[i] is the unpadded length of example i's
\* sequence.
C7_SymbolMatrix ==
    Returned =>
        LET n == Len(out.batch)
            text == out.res.text
        IN /\ Len(text) = n
           /\ Len(out.res.text_lenghts) = n
           /\ \E i \in 1..n : Len(text[1]) = Len(out.batch[i].text)
           /\ \A i \in 1..n :
                 /\ Len(out.batch[i].text) <= Len(text[i])
                 /\ Len(text[i]) = Len(text[1])
                 /\ \A j \in 1..Len(text[i]) :
                       text[i][j] = IF j <= Len(out.batch[i].text)
                                    THEN out.batch[i].text[j] ELSE 0
                 /\ out.res.text_lenghts[i] = Len(out.batch[i].text)

\* a batch whose first example is shorter than its second
C7_Witness ==
    /\ Returned
    /\ Len(out.batch) = 2
    /\ out.batch[1].text = <<2>>
    /\ out.batch[2].text = <<1, 2>>
    /\ out.res.text = << <<2, 0>>, <<1, 2>> >>
    /\ out.res.text_lenghts = <<1, 2>>

\* C8: the constructor completes on an empty manifest and leaves an empty
\* table, so that the dataset reports length 0.
C8_EmptyBuilds ==
    (phase # "new" /\ Len(manifest) = 0) => (phase = "ready" /\ Len(frames) = 0)

\* what a getitem or len call of worker w returns when it runs alone
AsAlone(w) ==
    /\ (ret[w].op = "len") => ret[w].n = Len(frames)
    /\ (ret[w].op = "getitem" /\ ret[w].status = "ok") =>
          /\ ret[w].idx \in 1..Len(frames)
          /\ ret[w].sample.item_idx = frames[ret[w].idx].name
          /\ ret[w].sample.wav = WavOf(frames[ret[w].idx].name)
          /\ ret[w].resource = wav_name(frames[ret[w].idx].name)

\* C9: once built, no step of any worker changes the example table: it
\* stays what it was, stays sorted, and what a call returns is what the
\* call returns on its own.
C9_ReadOnly ==
    [][phase = "ready" =>
          /\ frames' = frames
          /\ Sorted(frames')
          /\ \A w \in Workers : AsAlone(w)']_vars

\* one worker between two reads of the table while the other has loaded
\* and collated a sample
C9_Witness ==
    /\ pc["w1"] = "l61"
    /\ ret["w2"].op = "collate"
    /\ Len(frames) = MaxFrames

\* C10: the step padding is between 1 and outputs_per_step, it makes
\* timesteps + pad_len the smallest multiple of outputs_per_step above
\* timesteps (so pad_len is 1 when timesteps + 1 is a multiple), and both
\* spectrograms grow by it.
C10_MinimalPad ==
    Returned =>
        LET t == out.res.timesteps
            pl == out.res.pad_len
        IN /\ 1 <= pl
           /\ pl <= outputs_per_step
           /\ (t + pl) % outputs_per_step = 0
           /\ \A k \in 1..(pl - 1) : (t + k) % outputs_per_step # 0
           /\ ((t + 1) % outputs_per_step = 0) => pl = 1
           /\ out.res.linear[2] = out.linT + pl
           /\ out.res.mel[2] = out.melT + pl

\* a batch padded by a full outputs_per_step
C10_Witness ==
    /\ Returned
    /\ outputs_per_step = 3
    /\ out.res.timesteps = 0
    /\ out.res.pad_len = 3

====
